---------------------------- MODULE Spec2Model ----------------------------
(***************************************************************************)
(* A model of confluent's configuration pipeline:                          *)
(*   Config.parse          (src/src/confluent/base/config.py)              *)
(*   Orchestrator          (src/src/confluent/base/orchestrator.py)        *)
(*   JavaConfig            (src/src/confluent/language_configs/            *)
(*                          java_config.py)                                *)
(*   JavaGenerator         (src/src/confluent/generators/                  *)
(*                          java_generator.py)                             *)
(*   FsDistributor         (src/src/confluent/distributors/                *)
(*                          fs_distributor.py)                             *)
(*                                                                         *)
(* Python strings are sequences of one-character strings, so that the      *)
(* regular expression \${(\w+)} of the substitution stage is modelled by   *)
(* what it matches.  Python values are records with a kind tag, because a  *)
(* property value may be a str, a bool, an int or a float.                 *)
(***************************************************************************)
EXTENDS Integers, Sequences, FiniteSets, TLC

(***************************************************************************)
(* Bounds of the model.                                                    *)
(***************************************************************************)
\* Largest number of entries of the properties sequence of an input.
MaxProps == 3
\* Largest number of entries of the languages sequence of an input.
MaxLangs == 2

(***************************************************************************)
(* Python values.                                                          *)
(***************************************************************************)
PyStr(s) == [kind |-> "str", chars |-> s, num |-> 0]
PyInt(n) == [kind |-> "int", chars |-> <<>>, num |-> n]
PyBool(b) == [kind |-> "bool", chars |-> <<>>, num |-> IF b THEN 1 ELSE 0]
PyNone == [kind |-> "NoneType", chars |-> <<>>, num |-> 0]

\* isinstance(value, str)
IsStr(v) == v.kind = "str"

\* Python truthiness of the three values the hidden attribute can hold.
Truthy(h) == h = "True"

(***************************************************************************)
(* The characters \w matches, among the characters the inputs are made of. *)
(***************************************************************************)
WordChars == {"A", "B", "C", "x", "y"}

\* The first position at or after i of s that holds no word character
\* (Len(s) + 1 when the word characters run to the end): the greedy \w+.
RECURSIVE WordEnd(_, _)
WordEnd(s, i) ==
    IF i > Len(s) \/ s[i] \notin WordChars THEN i ELSE WordEnd(s, i + 1)

\* The pattern \${(\w+)} matches at position i of s.
MatchAt(s, i) ==
    /\ i + 3 <= Len(s)
    /\ s[i] = "$"
    /\ s[i + 1] = "{"
    /\ LET e == WordEnd(s, i + 2)
       IN  e > i + 2 /\ e <= Len(s) /\ s[e] = "}"

\* group(1) of the match at position i, and the position after the match.
MatchGroup(s, i) == SubSeq(s, i + 2, WordEnd(s, i + 2) - 1)
MatchEnd(s, i) == WordEnd(s, i + 2) + 1

\* re.sub's left-to-right scan of s from position i: the non-overlapping
\* matches and the text between them, as a sequence of pieces.
RECURSIVE Scan(_, _)
Scan(s, i) ==
    IF i > Len(s) THEN <<>>
    ELSE IF MatchAt(s, i)
         THEN <<[ref |-> TRUE, text |-> MatchGroup(s, i)]>>
              \o Scan(s, MatchEnd(s, i))
         ELSE <<[ref |-> FALSE, text |-> <<s[i]>>]>> \o Scan(s, i + 1)

\* The text ${name}.
Placeholder(name) == <<"$", "{">> \o name \o <<"}">>

(***************************************************************************)
(* The inputs: the object yaml.safe_load returns for a document.  An entry *)
(* is a record whose domain is the set of keys the document gives it, so   *)
(* that an optional key is present or absent as in the Python dict.        *)
(***************************************************************************)
\* Property names the inputs use, and the values they use.
Names == {<<"A">>, <<"B">>, <<"C">>}
Values ==
    {PyStr(<<"x">>), PyStr(<<"y">> \o Placeholder(<<"A">>)),
     PyStr(Placeholder(<<"B">>)), PyStr(Placeholder(<<"C">>)), PyInt(5)}

\* The type tag the inputs give a value of each kind.
TypeTagOf(v) == IF v.kind = "str" THEN "string" ELSE v.kind

\* The values the hidden properties of the inputs use.
HiddenValues == {PyStr(<<"x">>), PyStr(Placeholder(<<"B">>))}

PropertyEntries ==
    {[type |-> TypeTagOf(v), name |-> n, value |-> v] :
        <<n, v>> \in Names \X Values}
    \cup {[type |-> TypeTagOf(v), name |-> n, value |-> v, hidden |-> TRUE] :
            <<n, v>> \in Names \X HiddenValues}

\* All sequences of at most n elements of S.
SeqsUpTo(S, n) == UNION {[1..k -> S] : k \in 0..n}

PropertyLists == SeqsUpTo(PropertyEntries, MaxProps)

JavaEntries ==
    LET base == {[type |-> "java"], [type |-> "java", package |-> ""],
                 [type |-> "java", package |-> "com.example"]}
        withIndent == base \cup {e @@ [indent |-> 2] : e \in base}
    IN  withIndent \cup {e @@ [file_naming |-> f] :
                           <<e, f>> \in withIndent \X {"snake", "kebab"}}

LanguageEntries == JavaEntries \cup {[type |-> "ruby"], [type |-> "perl"]}

LanguageLists == SeqsUpTo(LanguageEntries, MaxLangs)

\* The languages of the documents that vary their properties, and the
\* properties of the documents that vary their languages.
BaseLanguageLists == {<<[type |-> "java", package |-> "com.example"]>>}
BasePropertyLists ==
    {<<>>,
     <<[type |-> "string", name |-> <<"A">>, value |-> PyStr(<<"x">>),
        hidden |-> TRUE, comment |-> "c"],
       [type |-> "regex", name |-> <<"B">>,
        value |-> PyStr(<<"y">> \o Placeholder(<<"A">>)), hidden |-> FALSE]>>,
     <<[type |-> "string", name |-> <<"A">>, value |-> PyInt(5)]>>,
     <<[type |-> "colour", name |-> <<"A">>, value |-> PyStr(<<"x">>)]>>}

\* The properties of the documents that have a property of each of the six
\* types, one of them with a backslash in its value.
TypedPropertyLists ==
    {<<[type |-> "bool", name |-> <<"A">>, value |-> PyBool(TRUE)],
       [type |-> "int", name |-> <<"B">>, value |-> PyInt(12)],
       [type |-> "float", name |-> <<"C">>, value |-> PyInt(5)]>>,
     <<[type |-> "double", name |-> <<"A">>, value |-> PyInt(5)],
       [type |-> "string", name |-> <<"B">>, value |-> PyStr(<<"x">>)],
       [type |-> "regex", name |-> <<"C">>,
        value |-> PyStr(<<"a", "\\", "b">>)]>>}

Documents ==
    {[languages |-> l, properties |-> p] :
        <<l, p>> \in (BaseLanguageLists \X PropertyLists)
                     \cup (LanguageLists \X BasePropertyLists)
                     \cup (BaseLanguageLists \X TypedPropertyLists)}

\* The config_name argument of Config.parse.
ConfigName == "test-config"

(***************************************************************************)
(* Exceptions.  An error is the exception's class and its argument; the    *)
(* argument is a sequence of strings (a name is a sequence of characters). *)
(***************************************************************************)
NoError == [kind |-> "none", arg |-> <<>>]
Raise(kind, arg) == [kind |-> kind, arg |-> arg]

\* Python's None, where an attribute holds None or a string.
None == "None"

(***************************************************************************)
(* The language registry, _LANGUAGE_MAPPINGS: one mapping per language,    *)
(* binding its name, its LanguageType and its config type.                 *)
(***************************************************************************)
LanguageMappings ==
    <<[name |-> "java", type |-> "LanguageType.JAVA",
       config_type |-> "JavaConfig"]>>

\* Config._evaluate_data_type: the PropertyType of a type string.
PropertyTypeNames == {"bool", "int", "float", "double", "string", "regex"}
EvaluateDataTypeError(type) ==
    IF type \in PropertyTypeNames THEN NoError
    ELSE Raise("UnknownPropertyTypeException", <<type>>)
EvaluateDataType(type) ==
    CASE type = "bool" -> "PropertyType.BOOL"
      [] type = "int" -> "PropertyType.INT"
      [] type = "float" -> "PropertyType.FLOAT"
      [] type = "double" -> "PropertyType.DOUBLE"
      [] type = "string" -> "PropertyType.STRING"
      [] type = "regex" -> "PropertyType.REGEX"

\* Config._evaluate_language_type: the LanguageType of a language name.
FoundLanguageTypes(language) ==
    LET found == SelectSeq(LanguageMappings, LAMBDA m : m.name = language)
    IN  [i \in 1..Len(found) |-> found[i].type]
EvaluateLanguageTypeError(language) ==
    LET length == Len(FoundLanguageTypes(language))
    IN  IF length = 0 THEN Raise("UnknownLanguageException", <<language>>)
        ELSE IF length > 1 THEN Raise("SeveralLanguagesException", <<language>>)
        ELSE NoError
EvaluateLanguageType(language) == FoundLanguageTypes(language)[1]

\* Config._evaluate_config_type: the config type of a LanguageType.
FoundConfigTypes(language_type) ==
    LET found == SelectSeq(LanguageMappings,
                           LAMBDA m : m.type = language_type)
    IN  [i \in 1..Len(found) |-> found[i].config_type]
EvaluateConfigTypeError(language_type) ==
    LET length == Len(FoundConfigTypes(language_type))
    IN  IF length = 0
        THEN Raise("NoLanguageConfigException", <<language_type>>)
        ELSE IF length > 1
        THEN Raise("SeveralLanguageConfigsException",
                   <<"Several language configs found">>)
        ELSE NoError
EvaluateConfigType(language_type) == FoundConfigTypes(language_type)[1]

\* Config._evaluate_naming_convention_type: the NamingConventionType of a
\* naming-convention string; any other argument is returned as it is.
EvaluateNamingConventionType(naming_convention) ==
    CASE naming_convention = "snake" -> "NamingConventionType.SNAKE_CASE"
      [] naming_convention = "screaming_snake" ->
             "NamingConventionType.SCREAMING_SNAKE_CASE"
      [] naming_convention = "camel" -> "NamingConventionType.CAMEL_CASE"
      [] naming_convention = "pascal" -> "NamingConventionType.PASCAL_CASE"
      [] naming_convention = "kebap" -> "NamingConventionType.KEBAP_CASE"
      [] OTHER -> naming_convention

(***************************************************************************)
(* Config._schema: the validation of the loaded object.  A list schema     *)
(* validates every element of the list; Use(f) replaces the value by       *)
(* f(value) and fails when f raises.                                       *)
(***************************************************************************)
Replaced(entry, key, v) == [k \in DOMAIN entry |-> IF k = key THEN v ELSE entry[k]]

SchemaLanguageError(entry) == EvaluateLanguageTypeError(entry.type)
SchemaLanguage(entry) == Replaced(entry, "type", EvaluateLanguageType(entry.type))
SchemaPropertyError(entry) == EvaluateDataTypeError(entry.type)
SchemaProperty(entry) == Replaced(entry, "type", EvaluateDataType(entry.type))

\* The first error of a sequence of errors, NoError when it has none.
FirstError(errors) ==
    LET bad == {i \in 1..Len(errors) : errors[i] # NoError}
    IN  IF bad = {} THEN NoError
        ELSE errors[CHOOSE i \in bad : \A j \in bad : i <= j]

\* The errors of the elements of a list of language entries, and of a list
\* of property entries.
SchemaLanguageErrors(list) ==
    [i \in 1..Len(list) |-> SchemaLanguageError(list[i])]
SchemaPropertyErrors(list) ==
    [i \in 1..Len(list) |-> SchemaPropertyError(list[i])]

\* A schema that requires a language.
SchemaErrorsRequireLanguage(object) ==
    IF object.languages = <<>> THEN {Raise("SchemaError", <<"languages">>)}
    ELSE {FirstError(SchemaLanguageErrors(object.languages)),
          FirstError(SchemaPropertyErrors(object.properties))} \ {NoError}

\* The errors validate can raise for an object: that of the first failing
\* language and that of the first failing property.  The two keys are
\* validated in the order the document lists them, which the model leaves
\* open, so either error can be the one that is raised.
SchemaErrors(object) ==
    {FirstError(SchemaLanguageErrors(object.languages)),
     FirstError(SchemaPropertyErrors(object.properties))} \ {NoError}

SchemaValidate(object) ==
    [languages |-> [i \in 1..Len(object.languages) |->
                        SchemaLanguage(object.languages[i])],
     properties |-> [i \in 1..Len(object.properties) |->
                        SchemaProperty(object.properties[i])]]

(***************************************************************************)
(* Property: the attributes Config.parse gives a property.                 *)
(***************************************************************************)
PyBoolName(b) == IF b THEN "True" ELSE "False"

NewProperty(property) ==
    [type |-> property.type,
     name |-> property.name,
     value |-> property.value,
     hidden |-> IF "hidden" \in DOMAIN property
                THEN PyBoolName(property.hidden) ELSE None,
     comment |-> IF "comment" \in DOMAIN property
                 THEN property.comment ELSE None]

CollectProperties(entries) == [i \in 1..Len(entries) |-> NewProperty(entries[i])]

(***************************************************************************)
(* The substitution of one property's value, lines 117-137.                *)
(***************************************************************************)
\* The text of RecursiveSubstitutionException's argument.
SelfReferenceText == <<"It's not allowed to reference the property itself">>

\* The values of the properties named as the placeholder, in list order.
FoundProperties(props, substitution_property) ==
    LET found == SelectSeq(props,
                           LAMBDA p : p.name = substitution_property)
    IN  [i \in 1..Len(found) |-> found[i].value]

\* replace(match) without the check for a self-reference.
ReplaceErrorNoSelfCheck(props, k, substitution_property) ==
    IF FoundProperties(props, substitution_property) = <<>>
    THEN Raise("UnknownSubstitutionException", substitution_property)
    ELSE NoError

\* replace(match) that reports the current property as the unknown one.
ReplaceErrorWrongName(props, k, substitution_property) ==
    IF substitution_property # props[k].name
    THEN IF FoundProperties(props, substitution_property) = <<>>
         THEN Raise("UnknownSubstitutionException", props[k].name)
         ELSE NoError
    ELSE Raise("RecursiveSubstitutionException", SelfReferenceText)

\* replace(match) that also rejects a reference to a property whose value
\* references the current property back.
ReplaceErrorRejectsBackReference(props, k, substitution_property) ==
    IF substitution_property # props[k].name
    THEN LET found == FoundProperties(props, substitution_property)
         IN  IF found = <<>>
             THEN Raise("UnknownSubstitutionException", substitution_property)
             ELSE IF /\ IsStr(found[1])
                     /\ \E i \in 1..Len(found[1].chars) :
                            /\ MatchAt(found[1].chars, i)
                            /\ MatchGroup(found[1].chars, i) = props[k].name
             THEN Raise("RecursiveSubstitutionException", SelfReferenceText)
             ELSE NoError
    ELSE Raise("RecursiveSubstitutionException", SelfReferenceText)

\* replace(match), for the property at index k: the error it raises.
ReplaceError(props, k, substitution_property) ==
    IF substitution_property # props[k].name
    THEN IF FoundProperties(props, substitution_property) = <<>>
         THEN Raise("UnknownSubstitutionException", substitution_property)
         ELSE NoError
    ELSE Raise("RecursiveSubstitutionException", SelfReferenceText)

\* replace(match): the replacement it returns when it raises nothing.
Replace(props, k, substitution_property) ==
    FoundProperties(props, substitution_property)[1]

\* re.sub(pattern, replace, value): replace is called for each match from
\* left to right and the first exception it raises ends the call; the
\* pieces are joined afterwards, which raises TypeError when a replacement
\* is no str.
RECURSIVE SubPieces(_, _, _, _, _)
SubPieces(props, k, pieces, i, acc) ==
    IF i > Len(pieces) THEN acc
    ELSE IF ~pieces[i].ref
    THEN SubPieces(props, k, pieces, i + 1,
                   [acc EXCEPT !.chars = @ \o pieces[i].text])
    ELSE IF ReplaceError(props, k, pieces[i].text) # NoError
    THEN [acc EXCEPT !.error = ReplaceError(props, k, pieces[i].text)]
    ELSE LET replacement == Replace(props, k, pieces[i].text)
         IN  SubPieces(props, k, pieces, i + 1,
                 IF IsStr(replacement)
                 THEN [acc EXCEPT !.chars = @ \o replacement.chars]
                 ELSE [acc EXCEPT !.joinable = FALSE])

ReSubOnce(props, k) ==
    LET r == SubPieces(props, k, Scan(props[k].value.chars, 1), 1,
                       [error |-> NoError, chars |-> <<>>, joinable |-> TRUE])
    IN  IF r.error = NoError /\ ~r.joinable
        THEN [r EXCEPT !.error = Raise("TypeError", <<"expected str instance">>)]
        ELSE r

\* A substitution that scans the substituted text once more.
ReSubRescans(props, k) ==
    LET r == ReSubOnce(props, k)
    IN  IF r.error # NoError THEN r
        ELSE ReSubOnce([props EXCEPT ![k].value = PyStr(r.chars)], k)

\* The one call of re.sub for the value of the property at index k.
ReSub(props, k) == ReSubOnce(props, k)

\* A filter that keeps every property.
RemoveHiddenKeepsAll(props) == props

\* Remove hidden properties, line 140.
RemoveHidden(props) == SelectSeq(props, LAMBDA p : ~Truthy(p.hidden))

(***************************************************************************)
(* JavaGenerator and JavaConfig.                                           *)
(***************************************************************************)
\* Python truthiness of a package name.
PackageIsEmpty(package) == package = ""

\* JavaGenerator._evaluate_package_name: the error it raises.
EvaluatePackageNameError(additional_props) ==
    IF "package" \notin DOMAIN additional_props
    THEN Raise("NoPackageNameException", <<>>)
    ELSE IF PackageIsEmpty(additional_props.package)
    THEN Raise("EmptyPackageNameException", <<>>)
    ELSE NoError

\* A config that does not take over the indent it is given.
JavaConfigDropsIndent(config_name, file_naming_convention, props, indent, additional_props) ==
    [config_name |-> config_name,
     language_type |-> "LanguageType.JAVA",
     file_naming_convention |-> file_naming_convention,
     file_extension |-> "java",
     generator_type |-> "JavaGenerator",
     properties |-> props,
     indent |-> PyNone,
     additional_props |-> additional_props]

\* JavaConfig.__init__: the language config of a java entry.  Its
\* generator is a JavaGenerator, whose constructor evaluates the package.
JavaConfigError(config_name, file_naming_convention, props, indent, additional_props) ==
    EvaluatePackageNameError(additional_props)

JavaConfig(config_name, file_naming_convention, props, indent, additional_props) ==
    [config_name |-> config_name,
     language_type |-> "LanguageType.JAVA",
     file_naming_convention |-> file_naming_convention,
     file_extension |-> "java",
     generator_type |-> "JavaGenerator",
     properties |-> props,
     indent |-> indent,
     additional_props |-> additional_props]

\* JavaGenerator._property_in_class: the error it raises for a property.
\* str.replace exists for a str value only.
PropertyInClassError(property) ==
    IF property.type \in {"PropertyType.BOOL", "PropertyType.INT",
                          "PropertyType.FLOAT", "PropertyType.DOUBLE"}
    THEN NoError
    ELSE IF property.type \in {"PropertyType.STRING", "PropertyType.REGEX"}
    THEN IF IsStr(property.value) THEN NoError
         ELSE Raise("AttributeError", <<"replace">>)
    ELSE Raise("Exception", <<"Unknown type">>)

\* Python truthiness of a value.
PyTruthy(v) == IF v.kind = "str" THEN v.chars # <<>> ELSE v.num # 0

\* str() of a non-negative int: its decimal digits.
Digit(d) == CASE d = 0 -> "0" [] d = 1 -> "1" [] d = 2 -> "2" [] d = 3 -> "3" [] d = 4 -> "4" [] d = 5 -> "5" [] d = 6 -> "6" [] d = 7 -> "7" [] d = 8 -> "8" [] d = 9 -> "9"
RECURSIVE DecimalDigits(_)
DecimalDigits(n) ==
    IF n < 10 THEN <<Digit(n)>>
    ELSE DecimalDigits(n \div 10) \o <<Digit(n % 10)>>

\* The text an f-string puts in for {value}: str(value).
PyFormat(v) ==
    CASE v.kind = "str" -> v.chars
      [] v.kind = "int" ->
             IF v.num < 0 THEN <<"-">> \o DecimalDigits(0 - v.num)
             ELSE DecimalDigits(v.num)
      [] v.kind = "bool" ->
             IF v.num = 1 THEN <<"T", "r", "u", "e">>
             ELSE <<"F", "a", "l", "s", "e">>
      [] OTHER -> <<"N", "o", "n", "e">>

\* str.replace('\\', '\\\\'): every backslash of s twice.
RECURSIVE ReplaceBackslashes(_)
ReplaceBackslashes(s) ==
    IF s = <<>> THEN <<>>
    ELSE (IF Head(s) = "\\" THEN <<"\\", "\\">> ELSE <<Head(s)>>)
         \o ReplaceBackslashes(Tail(s))

\* The declaration f'public final static {type} {property.name} = {value};'
\* as its three holes.
Declaration(type, name, value) ==
    [modifiers |-> "public final static", type |-> type, name |-> name,
     value |-> value]

\* JavaGenerator._property_in_class: the declaration it returns for a
\* property it raises no error for.
PropertyInClass(property) ==
    CASE property.type = "PropertyType.BOOL" ->
             Declaration("boolean", property.name,
                         IF PyTruthy(property.value)
                         THEN <<"t", "r", "u", "e">>
                         ELSE <<"f", "a", "l", "s", "e">>)
      [] property.type = "PropertyType.INT" ->
             Declaration("int", property.name, PyFormat(property.value))
      [] property.type = "PropertyType.FLOAT" ->
             Declaration("float", property.name,
                         PyFormat(property.value) \o <<"f">>)
      [] property.type = "PropertyType.DOUBLE" ->
             Declaration("double", property.name,
                         PyFormat(property.value) \o <<"d">>)
      [] property.type \in {"PropertyType.STRING", "PropertyType.REGEX"} ->
             Declaration("String", property.name,
                         <<"\"">>
                         \o ReplaceBackslashes(property.value.chars)
                         \o <<"\"">>)

\* dump() of a language config: the error rendering its properties raises.
DumpError(config) ==
    FirstError([i \in 1..Len(config.properties) |->
                   PropertyInClassError(config.properties[i])])

\* dump() of a language config that renders: the declarations of its
\* properties, in the order of the list.
DumpDeclarations(config) ==
    [i \in 1..Len(config.properties) |->
        PropertyInClass(config.properties[i])]

(***************************************************************************)
(* The state.                                                              *)
(***************************************************************************)
VARIABLES
    content,           \* the loaded document Config.parse is given
    pc,                \* the position of the invocation
    validated_object,  \* parse: the validated object
    properties,        \* parse: the list of Property objects
    index,             \* the position of the running loop in its list
    language_configs,  \* parse: the language configs built so far
    error,             \* the exception that ended the invocation
    orchestrator,      \* the Orchestrator parse_config returned
    path_exists,       \* the distributor's target path exists
    create_dirs,       \* the distributor's create_dirs
    handoffs           \* the calls of config.write so far

vars == <<content, pc, validated_object, properties, index, language_configs,
          error, orchestrator, path_exists, create_dirs, handoffs>>

NoOrchestrator == [constructed |-> FALSE, language_configs |-> <<>>]

Init ==
    /\ content \in Documents
    /\ pc = "validate"
    /\ validated_object = [languages |-> <<>>, properties |-> <<>>]
    /\ properties = <<>>
    /\ index = 1
    /\ language_configs = <<>>
    /\ error = NoError
    /\ orchestrator = NoOrchestrator
    /\ path_exists = FALSE
    /\ create_dirs = FALSE
    /\ handoffs = <<>>

(***************************************************************************)
(* Config.parse.                                                           *)
(***************************************************************************)
\* A parse that builds the properties from the loaded object before it
\* validates the object.
ValidateAfterCollect ==
    /\ pc = "validate"
    /\ properties' = CollectProperties(content.properties)
    /\ IF SchemaErrors(content) = {}
       THEN /\ validated_object' = SchemaValidate(content)
            /\ pc' = "collect"
            /\ error' = error
       ELSE /\ error' \in SchemaErrors(content)
            /\ pc' = "raised"
            /\ validated_object' = validated_object
    /\ UNCHANGED <<content, index, language_configs, orchestrator,
                   path_exists, create_dirs, handoffs>>

\* Lines 101-104: validation.
Validate ==
    /\ pc = "validate"
    /\ IF SchemaErrors(content) = {}
       THEN /\ validated_object' = SchemaValidate(content)
            /\ pc' = "collect"
            /\ error' = error
       ELSE /\ error' \in SchemaErrors(content)
            /\ pc' = "raised"
            /\ validated_object' = validated_object
    /\ UNCHANGED <<content, properties, index, language_configs, orchestrator,
                   path_exists, create_dirs, handoffs>>

\* Lines 106-114: collect the properties.
Collect ==
    /\ pc = "collect"
    /\ properties' = CollectProperties(validated_object.properties)
    /\ index' = 1
    /\ pc' = "substitute"
    /\ UNCHANGED <<content, validated_object, language_configs, error,
                   orchestrator, path_exists, create_dirs, handoffs>>

\* Lines 117-137: one iteration of the substitution loop.
Substitute ==
    /\ pc = "substitute"
    /\ index <= Len(properties)
    /\ IF ~IsStr(properties[index].value)
       THEN /\ index' = index + 1
            /\ UNCHANGED <<properties, pc, error>>
       ELSE LET r == ReSub(properties, index)
            IN  IF r.error # NoError
                THEN /\ error' = r.error
                     /\ pc' = "raised"
                     /\ UNCHANGED <<properties, index>>
                ELSE /\ properties' =
                          [properties EXCEPT ![index].value = PyStr(r.chars)]
                     /\ index' = index + 1
                     /\ UNCHANGED <<pc, error>>
    /\ UNCHANGED <<content, validated_object, language_configs, orchestrator,
                   path_exists, create_dirs, handoffs>>

\* Lines 139-140: the end of the substitution loop, and the filter.
Filter ==
    /\ pc = "substitute"
    /\ index > Len(properties)
    /\ properties' = RemoveHidden(properties)
    /\ index' = 1
    /\ pc' = "languages"
    /\ UNCHANGED <<content, validated_object, language_configs, error,
                   orchestrator, path_exists, create_dirs, handoffs>>

\* A language loop that skips an entry whose config cannot be built.
EvaluateLanguageSkipsFailed ==
    /\ pc = "languages"
    /\ index <= Len(validated_object.languages)
    /\ LET language == validated_object.languages[index]
           language_type == language.type
           indent == IF "indent" \in DOMAIN language
                     THEN PyInt(language.indent) ELSE PyNone
           file_naming_convention ==
               EvaluateNamingConventionType(
                   IF "file_naming" \in DOMAIN language
                   THEN language.file_naming ELSE None)
           type_error == EvaluateConfigTypeError(language_type)
           config_error ==
               IF type_error # NoError THEN type_error
               ELSE JavaConfigError(ConfigName, file_naming_convention,
                                    properties, indent, language)
       IN  /\ language_configs' =
                 IF config_error # NoError THEN language_configs
                 ELSE Append(language_configs,
                             JavaConfig(ConfigName, file_naming_convention,
                                        properties, indent, language))
           /\ index' = index + 1
           /\ UNCHANGED <<pc, error>>
    /\ UNCHANGED <<content, validated_object, properties, orchestrator,
                   path_exists, create_dirs, handoffs>>

\* Lines 143-160: one iteration of the language loop.
EvaluateLanguage ==
    /\ pc = "languages"
    /\ index <= Len(validated_object.languages)
    /\ LET language == validated_object.languages[index]
           language_type == language.type
           indent == IF "indent" \in DOMAIN language
                     THEN PyInt(language.indent) ELSE PyNone
           file_naming_convention ==
               EvaluateNamingConventionType(
                   IF "file_naming" \in DOMAIN language
                   THEN language.file_naming ELSE None)
           type_error == EvaluateConfigTypeError(language_type)
           config_error ==
               IF type_error # NoError THEN type_error
               ELSE JavaConfigError(ConfigName, file_naming_convention,
                                    properties, indent, language)
       IN  IF config_error # NoError
           THEN /\ error' = config_error
                /\ pc' = "raised"
                /\ UNCHANGED <<language_configs, index>>
           ELSE /\ language_configs' =
                     Append(language_configs,
                            JavaConfig(ConfigName, file_naming_convention,
                                       properties, indent, language))
                /\ index' = index + 1
                /\ UNCHANGED <<pc, error>>
    /\ UNCHANGED <<content, validated_object, properties, orchestrator,
                   path_exists, create_dirs, handoffs>>

(***************************************************************************)
(* Orchestrator.                                                           *)
(***************************************************************************)
\* Orchestrator.__init__
NewOrchestrator(configs) == [constructed |-> TRUE, language_configs |-> configs]

\* Config.parse returns its list (line 162) and Orchestrator.parse_config
\* wraps it in an Orchestrator.
ParseReturn ==
    /\ pc = "languages"
    /\ index > Len(validated_object.languages)
    /\ orchestrator' = NewOrchestrator(language_configs)
    /\ pc' = "parsed"
    /\ UNCHANGED <<content, validated_object, properties, index,
                   language_configs, error, path_exists, create_dirs, handoffs>>

\* Orchestrator.write(path) is called; the target path exists or not and
\* the distributor creates directories or not.
WriteBegin ==
    /\ pc = "parsed"
    /\ path_exists' \in BOOLEAN
    /\ create_dirs' \in BOOLEAN
    /\ index' = 1
    /\ pc' = "write"
    /\ UNCHANGED <<content, validated_object, properties, language_configs,
                   error, orchestrator, handoffs>>

\* FsDistributor.distribute: the error it raises; opened tells whether the
\* file system lets the file be opened for writing.
DistributeError(exists, create, opened) ==
    IF ~exists /\ ~create
    THEN Raise("TargetPathDoesntExitException", <<"path">>)
    ELSE IF ~opened THEN Raise("OSError", <<"open">>)
    ELSE NoError

\* config.write(path): the config is rendered and the text is handed to
\* the distributor; the error this raises.
ConfigWriteError(config, exists, create, opened) ==
    IF DumpError(config) # NoError THEN DumpError(config)
    ELSE DistributeError(exists, create, opened)

\* A write that goes on with the next config after a failed one.
WriteConfigContinues ==
    /\ pc = "write"
    /\ index <= Len(orchestrator.language_configs)
    /\ \E opened \in BOOLEAN :
         LET config == orchestrator.language_configs[index]
             e == ConfigWriteError(config, path_exists, create_dirs, opened)
         IN  /\ handoffs' =
                    Append(handoffs,
                           [config |-> index, ok |-> e = NoError,
                            declarations |->
                                IF DumpError(config) = NoError
                                THEN DumpDeclarations(config) ELSE <<>>])
             /\ path_exists' =
                    IF DumpError(config) = NoError
                    THEN path_exists \/ create_dirs ELSE path_exists
             /\ error' = IF e # NoError THEN e ELSE error
             /\ index' = index + 1
             /\ pc' = pc
    /\ UNCHANGED <<content, validated_object, properties, language_configs,
                   orchestrator, create_dirs>>

\* One element of the comprehension of Orchestrator.write, line 35: the
\* call config.write(path).  An exception leaves the comprehension.
WriteConfig ==
    /\ pc = "write"
    /\ index <= Len(orchestrator.language_configs)
    /\ \E opened \in BOOLEAN :
         LET config == orchestrator.language_configs[index]
             e == ConfigWriteError(config, path_exists, create_dirs, opened)
         IN  /\ handoffs' =
                    Append(handoffs,
                           [config |-> index, ok |-> e = NoError,
                            declarations |->
                                IF DumpError(config) = NoError
                                THEN DumpDeclarations(config) ELSE <<>>])
             /\ path_exists' =
                    IF DumpError(config) = NoError
                    THEN path_exists \/ create_dirs ELSE path_exists
             /\ IF e # NoError
                THEN /\ error' = e
                     /\ pc' = "write_raised"
                     /\ index' = index
                ELSE /\ index' = index + 1
                     /\ UNCHANGED <<pc, error>>
    /\ UNCHANGED <<content, validated_object, properties, language_configs,
                   orchestrator, create_dirs>>

\* Orchestrator.write returns self.
WriteReturn ==
    /\ pc = "write"
    /\ index > Len(orchestrator.language_configs)
    /\ pc' = "written"
    /\ UNCHANGED <<content, validated_object, properties, index,
                   language_configs, error, orchestrator, path_exists,
                   create_dirs, handoffs>>

Next ==
    \/ Validate
    \/ Collect
    \/ Substitute
    \/ Filter
    \/ EvaluateLanguage
    \/ ParseReturn
    \/ WriteBegin
    \/ WriteConfig
    \/ WriteReturn

Spec == Init /\ [][Next]_vars

(***************************************************************************)
(* What the claims speak of, stated on the document.                       *)
(***************************************************************************)
Declared == content.properties
DeclaredHidden(k) == "hidden" \in DOMAIN Declared[k] /\ Declared[k].hidden
DeclaredStr(k) == IsStr(Declared[k].value)
IsDeclared(n) == \E k \in 1..Len(Declared) : Declared[k].name = n
\* The first property named n in declaration order.
FirstNamed(n) ==
    CHOOSE k \in 1..Len(Declared) :
        /\ Declared[k].name = n
        /\ \A m \in 1..(k - 1) : Declared[m].name # n
Pieces(j) == Scan(Declared[j].value.chars, 1)

\* s contains t as a contiguous piece.
Contains(s, t) ==
    \E i \in 1..(Len(s) - Len(t) + 1) : SubSeq(s, i, i + Len(t) - 1) = t

\* The names the placeholders of s reference, in any order.
References(s) ==
    LET ps == Scan(s, 1) IN {ps[i].text : i \in {j \in 1..Len(ps) : ps[j].ref}}

\* The placeholders of the string value of property j, each as
\* <<j, q, n>>: piece q of the value is a placeholder that names n.
PlaceholdersOf(j) ==
    IF ~DeclaredStr(j) THEN {}
    ELSE LET ps == Pieces(j)
         IN  {<<j, q, ps[q].text>> : q \in {r \in 1..Len(ps) : ps[r].ref}}
DeclaredPlaceholders == UNION {PlaceholdersOf(j) : j \in 1..Len(Declared)}
RefName(ph) == ph[3]
SelfReference(ph) == RefName(ph) = Declared[ph[1]].name
AbsentReference(ph) == ~SelfReference(ph) /\ ~IsDeclared(RefName(ph))
\* A placeholder at which replace raises.
Raising(ph) == SelfReference(ph) \/ AbsentReference(ph)
\* A placeholder whose replacement is no str.
NonStrReference(ph) ==
    /\ ~Raising(ph)
    /\ ~IsStr(Declared[FirstNamed(RefName(ph))].value)
\* No placeholder of phs fails before ph: none in an earlier property, and
\* none that raises to the left of ph in its own value.
FirstToRaiseAmong(phs, ph) ==
    \A other \in phs :
        /\ other[1] < ph[1] => ~Raising(other) /\ ~NonStrReference(other)
        /\ other[1] = ph[1] /\ other[2] < ph[2] => ~Raising(other)
FirstToRaise(ph) == FirstToRaiseAmong(DeclaredPlaceholders, ph)

KnownLanguageNames == {LanguageMappings[i].name : i \in 1..Len(LanguageMappings)}
ValidationPasses ==
    /\ \A i \in 1..Len(content.languages) :
           content.languages[i].type \in KnownLanguageNames
    /\ \A k \in 1..Len(Declared) : Declared[k].type \in PropertyTypeNames

ParseRunning == pc \in {"validate", "collect", "substitute", "languages"}
ParseEnded == ~ParseRunning
ParseFailed == pc = "raised" /\ ~orchestrator.constructed
\* The substitution loop has ended and the hidden properties are still in
\* the list.
SubstitutionDone == pc = "substitute" /\ index > Len(properties)
SubstitutionErrors ==
    {"UnknownSubstitutionException", "RecursiveSubstitutionException",
     "TypeError"}

\* Every language config parse has built, returned or not.
AllConfigs ==
    {language_configs[i] : i \in 1..Len(language_configs)}
    \cup {orchestrator.language_configs[i] :
            i \in 1..Len(orchestrator.language_configs)}

(***************************************************************************)
(* C1                                                                      *)
(***************************************************************************)
\* C1: no property declared with hidden = true is in the property list of
\* any language config: every property a config holds is not hidden and
\* stems from a declared property that is not hidden.
C1_NoHiddenPropertyInAnyConfig ==
    \A config \in AllConfigs :
        \A j \in 1..Len(config.properties) :
            /\ ~Truthy(config.properties[j].hidden)
            /\ \E k \in 1..Len(Declared) :
                   /\ Declared[k].name = config.properties[j].name
                   /\ ~DeclaredHidden(k)

\* A parse that returned a config with a property, of a document that
\* declares a hidden property.
C1_Witness ==
    /\ orchestrator.constructed
    /\ Len(orchestrator.language_configs) >= 1
    /\ Len(orchestrator.language_configs[1].properties) >= 1
    /\ \E k \in 1..Len(Declared) : DeclaredHidden(k)

(***************************************************************************)
(* C2                                                                      *)
(***************************************************************************)
\* C2 as claimed: whenever a property's value has a placeholder naming the
\* property itself, parse fails with RecursiveSubstitutionException and
\* returns no language config.
C2_AlwaysRecursiveSubstitution ==
    ParseEnded =>
        \A ph \in DeclaredPlaceholders :
            SelfReference(ph) =>
                ParseFailed /\ error.kind = "RecursiveSubstitutionException"

\* C2 amended: whenever a property's value has a placeholder naming the
\* property itself, parse fails and returns no language config; on a
\* document that passes validation the error is
\* RecursiveSubstitutionException when no placeholder fails before that
\* one, and the error of the earlier placeholder otherwise.
C2_SelfReferenceFails ==
    ParseEnded =>
        LET phs == DeclaredPlaceholders
        IN  \A ph \in phs :
                SelfReference(ph) =>
                    /\ ParseFailed
                    /\ ValidationPasses => error.kind \in SubstitutionErrors
                    /\ ValidationPasses /\ FirstToRaiseAmong(phs, ph) =>
                           error.kind = "RecursiveSubstitutionException"

\* A parse that failed at the self-reference of a hidden property which
\* is not the first property of the document.
C2_Witness ==
    /\ pc = "raised"
    /\ error.kind = "RecursiveSubstitutionException"
    /\ index > 1
    /\ DeclaredHidden(index)
    /\ \E ph \in DeclaredPlaceholders :
           ph[1] = index /\ SelfReference(ph) /\ FirstToRaise(ph)

(***************************************************************************)
(* C3                                                                      *)
(***************************************************************************)
\* C3 as claimed: whenever a property's value has a placeholder ${N}, N not
\* the property's own name and no property named N declared, parse fails
\* with UnknownSubstitutionException(N) and returns no language config.
C3_AlwaysUnknownSubstitution ==
    ParseEnded =>
        \A ph \in DeclaredPlaceholders :
            AbsentReference(ph) =>
                /\ ParseFailed
                /\ error = Raise("UnknownSubstitutionException", RefName(ph))

\* C3 amended: whenever a property's value has a placeholder ${N}, N not
\* the property's own name and no property named N declared, parse fails
\* and returns no language config; on a document that passes validation
\* the error is UnknownSubstitutionException(N) when no placeholder fails
\* before that one, and the error of the earlier placeholder otherwise.
C3_AbsentReferenceFails ==
    ParseEnded =>
        LET phs == DeclaredPlaceholders
        IN  \A ph \in phs :
                AbsentReference(ph) =>
                    /\ ParseFailed
                    /\ ValidationPasses => error.kind \in SubstitutionErrors
                    /\ ValidationPasses /\ FirstToRaiseAmong(phs, ph) =>
                           error = Raise("UnknownSubstitutionException",
                                         RefName(ph))

\* A parse that failed at a placeholder naming no declared property, in a
\* property that is not the first of the document.
C3_Witness ==
    /\ pc = "raised"
    /\ error.kind = "UnknownSubstitutionException"
    /\ index > 1
    /\ \E ph \in DeclaredPlaceholders :
           /\ ph[1] = index
           /\ AbsentReference(ph)
           /\ FirstToRaise(ph)
           /\ error.arg = RefName(ph)

(***************************************************************************)
(* C4                                                                      *)
(***************************************************************************)
\* The value of property j after its substitution, by the claim: each
\* placeholder replaced by the value the first property of that name had
\* when j was processed, the substituted value of a property declared
\* before j and the declared value of one declared after j.
RECURSIVE Spliced(_, _)
Spliced(j, q) ==
    IF q > Len(Pieces(j)) THEN <<>>
    ELSE (IF Pieces(j)[q].ref
          THEN LET m == FirstNamed(Pieces(j)[q].text)
               IN  IF m < j THEN properties[m].value.chars
                   ELSE Declared[m].value.chars
          ELSE Pieces(j)[q].text) \o Spliced(j, q + 1)

\* C4: a placeholder ${N} of property P, N not P's name, resolves whenever
\* a property named N is declared, before or after P, hidden or not: the
\* substitution of a property raises only at a placeholder that names the
\* property itself or no declared property, and the value spliced is that
\* of the first property named N.
C4_ResolvesWheneverDeclared ==
    /\ pc = "raised" /\ error.kind \in SubstitutionErrors =>
           \E ph \in DeclaredPlaceholders : ph[1] = index /\ Raising(ph)
    /\ pc = "substitute" =>
           \A j \in 1..(index - 1) :
               DeclaredStr(j) => properties[j].value.chars = Spliced(j, 1)

(***************************************************************************)
(* C5                                                                      *)
(***************************************************************************)
\* The pairs <<i, j>>: the value of property i has a placeholder naming
\* property j, the first of its name, whose declared value is a string.
ReferencePairs ==
    {<<ph[1], FirstNamed(RefName(ph))>> : ph \in
        {p \in DeclaredPlaceholders :
            ~Raising(p) /\ DeclaredStr(FirstNamed(RefName(p)))}}

\* C5 as claimed: for A whose value has ${B} and B whose declared value has
\* ${C}, the final value of A contains the text ${C}, B declared before A
\* or after A.
C5_AlwaysLiteralPlaceholder ==
    SubstitutionDone =>
        \A pair \in ReferencePairs :
            \A c \in References(Declared[pair[2]].value.chars) :
                Contains(properties[pair[1]].value.chars, Placeholder(c))

\* C5 amended: each value is substituted once and the spliced text is not
\* scanned again.  For A whose value has ${B}: when B is declared after A,
\* the final value of A contains B's declared value, so the text ${C} of
\* every placeholder of B; when B is declared before A, the final value of
\* A contains B's substituted value, in which ${C} is already replaced.
C5_SinglePass ==
    SubstitutionDone =>
        \A pair \in ReferencePairs :
            LET final == properties[pair[1]].value.chars
            IN  /\ pair[2] > pair[1] =>
                    /\ Contains(final, Declared[pair[2]].value.chars)
                    /\ \A c \in References(Declared[pair[2]].value.chars) :
                           Contains(final, Placeholder(c))
                /\ pair[2] < pair[1] =>
                    Contains(final, properties[pair[2]].value.chars)

\* A finished substitution of three properties: one references a property
\* declared after it whose value has a placeholder for a third property,
\* and one references a property declared before it whose value had a
\* placeholder that is replaced.
C5_Witness ==
    /\ SubstitutionDone
    /\ \E pair \in ReferencePairs :
           /\ pair[2] > pair[1]
           /\ \E c \in References(Declared[pair[2]].value.chars) :
                  c # Declared[pair[1]].name
    /\ \E pair \in ReferencePairs :
           /\ pair[2] < pair[1]
           /\ References(Declared[pair[2]].value.chars) # {}
           /\ properties[pair[2]].value # Declared[pair[2]].value

(***************************************************************************)
(* C6                                                                      *)
(***************************************************************************)
UnknownLanguages ==
    {i \in 1..Len(content.languages) :
        content.languages[i].type \notin KnownLanguageNames}
ValidationErrors ==
    {"UnknownLanguageException", "SeveralLanguagesException",
     "UnknownPropertyTypeException"}
\* Nothing is built: no Property, no language config, no Orchestrator, and
\* nothing is handed off.
NothingBuilt ==
    /\ properties = <<>>
    /\ language_configs = <<>>
    /\ ~orchestrator.constructed
    /\ handoffs = <<>>

C7_RejectsEmptyLanguages ==
    /\ content.languages = <<>> /\ pc # "validate" => ParseFailed
    /\ Declared = <<>> /\ content.languages # <<>> /\ UnknownLanguages = {}
           => (pc = "raised" => error.kind \notin ValidationErrors)

\* C7 amended: validation accepts a document whose languages sequence is
\* empty when its property entries are valid, and parse then returns an
\* empty list of language configs unless a substitution fails; a document
\* with no property and at least one language entry, all of them valid, is
\* accepted as well.
C7_EmptyLanguagesAccepted ==
    /\ content.languages = <<>> =>
        /\ pc = "raised" =>
               error.kind \in SubstitutionErrors
                              \cup {"UnknownPropertyTypeException"}
        /\ ValidationPasses /\ pc = "raised" =>
               error.kind \in SubstitutionErrors
        /\ orchestrator.constructed => orchestrator.language_configs = <<>>
        /\ ValidationPasses /\ DeclaredPlaceholders = {} /\ ParseEnded =>
               orchestrator.constructed
    /\ Declared = <<>> /\ content.languages # <<>> /\ UnknownLanguages = {}
           => (pc = "raised" => error.kind \notin ValidationErrors)

\* A parse of a document without languages that returned an empty list.
C7_Witness ==
    /\ content.languages = <<>>
    /\ orchestrator.constructed
    /\ orchestrator.language_configs = <<>>
    /\ pc = "parsed"

(***************************************************************************)
(* C8                                                                      *)
(***************************************************************************)
NamesOf(list) == [i \in 1..Len(list) |-> list[i].name]
DeclaredVisible ==
    SelectSeq(Declared, LAMBDA e : ~("hidden" \in DOMAIN e /\ e.hidden))

\* C8: a successful parse returns one language config per language entry,
\* in the order of the entries, each with the same final property list
\* (the declared properties that are not hidden, in declaration order, with
\* their substituted values) and with its entry's indent, file naming
\* convention and additional parameters.
C8_OneConfigPerLanguage ==
    orchestrator.constructed =>
        /\ Len(orchestrator.language_configs) = Len(content.languages)
        /\ NamesOf(properties) = NamesOf(DeclaredVisible)
        /\ \A i \in 1..Len(orchestrator.language_configs) :
               LET config == orchestrator.language_configs[i]
                   entry == content.languages[i]
               IN  /\ config.properties = properties
                   /\ config.indent =
                          (IF "indent" \in DOMAIN entry
                           THEN PyInt(entry.indent) ELSE PyNone)
                   /\ config.file_naming_convention =
                          (IF "file_naming" \in DOMAIN entry
                           THEN EvaluateNamingConventionType(entry.file_naming)
                           ELSE None)
                   /\ DOMAIN config.additional_props = DOMAIN entry
                   /\ \A key \in DOMAIN entry \ {"type"} :
                          config.additional_props[key] = entry[key]

\* A parse that returned two configs whose entries differ in indent and
\* file naming, for a document with a hidden and a visible property.
C8_Witness ==
    /\ orchestrator.constructed
    /\ Len(orchestrator.language_configs) = 2
    /\ "indent" \in DOMAIN content.languages[1]
    /\ "indent" \notin DOMAIN content.languages[2]
    /\ "file_naming" \in DOMAIN content.languages[2]
    /\ Len(properties) >= 1
    /\ Len(properties) < Len(Declared)

(***************************************************************************)
(* C9                                                                      *)
(***************************************************************************)
\* A java entry whose config cannot be built: no package, or an empty one.
NoPackage(entry) ==
    entry.type = "java"
    /\ ("package" \notin DOMAIN entry \/ entry.package = "")

\* C9: when the config of a language entry cannot be built, parse returns
\* nothing, also not the configs built before the failing entry; a parse
\* that raised has returned no Orchestrator.
C9_AllOrNothing ==
    /\ pc = "raised" => orchestrator = NoOrchestrator
    /\ (\E i \in 1..Len(content.languages) : NoPackage(content.languages[i]))
           => /\ ~orchestrator.constructed
              /\ ParseEnded => pc = "raised"

\* A parse that failed at a java entry without a usable package after it
\* had built the config of an earlier entry.
C9_Witness ==
    /\ pc = "raised"
    /\ error.kind \in {"NoPackageNameException", "EmptyPackageNameException"}
    /\ Len(language_configs) >= 1
    /\ ~orchestrator.constructed

(***************************************************************************)
(* C10                                                                     *)
(***************************************************************************)
\* C10: write hands off the configs in the order of the list, each once;
\* a failed hand-off is the last one: it is not repeated and no later
\* config is handed off.
C10_HandoffsInOrderOnce ==
    /\ Len(handoffs) <= Len(orchestrator.language_configs)
    /\ \A k \in 1..Len(handoffs) :
           /\ handoffs[k].config = k
           /\ k < Len(handoffs) => handoffs[k].ok
    /\ pc = "written" =>
           /\ Len(handoffs) = Len(orchestrator.language_configs)
           /\ \A k \in 1..Len(handoffs) : handoffs[k].ok
    /\ pc = "write_raised" => ~handoffs[Len(handoffs)].ok
    /\ pc = "write" => \A k \in 1..Len(handoffs) : handoffs[k].ok

\* A write of two configs that ended at the failed hand-off of the first.
C10_Witness ==
    /\ pc = "write_raised"
    /\ Len(orchestrator.language_configs) = 2
    /\ Len(handoffs) = 1
    /\ ~handoffs[1].ok

(***************************************************************************)
(* C11                                                                     *)
(***************************************************************************)
\* The five convention names of a file_naming key and the member of the
\* NamingConventionType enum each of them stands for.
ConventionNames == {"snake", "screaming_snake", "camel", "pascal", "kebab"}
ConventionMember(name) ==
    CASE name = "snake" -> "NamingConventionType.SNAKE_CASE"
      [] name = "screaming_snake" -> "NamingConventionType.SCREAMING_SNAKE_CASE"
      [] name = "camel" -> "NamingConventionType.CAMEL_CASE"
      [] name = "pascal" -> "NamingConventionType.PASCAL_CASE"
      [] name = "kebab" -> "NamingConventionType.KEBAP_CASE"

\* C11: the config built for a language entry whose file_naming is one of
\* the five convention names holds the enum member of that name as its file
\* naming convention, and the config built for an entry without file_naming
\* holds no convention (None).
C11_ConventionNameYieldsEnumMember ==
    \A i \in 1..Len(language_configs) :
        LET entry == content.languages[i]
            config == language_configs[i]
        IN  IF "file_naming" \in DOMAIN entry
            THEN entry.file_naming \in ConventionNames =>
                     config.file_naming_convention =
                         ConventionMember(entry.file_naming)
            ELSE config.file_naming_convention = None

(***************************************************************************)
(* C12                                                                     *)
(***************************************************************************)
SixPropertyTypes ==
    {"PropertyType.BOOL", "PropertyType.INT", "PropertyType.FLOAT",
     "PropertyType.DOUBLE", "PropertyType.STRING", "PropertyType.REGEX"}

\* The number of backslashes among the first n characters of s.
BackslashesBefore(s, n) == Cardinality({i \in 1..n : s[i] = "\\"})

\* t is s between double quotes with every backslash of s doubled.
IsQuotedLiteral(t, s) ==
    /\ Len(t) = Len(s) + BackslashesBefore(s, Len(s)) + 2
    /\ t[1] = "\"" /\ t[Len(t)] = "\""
    /\ \A i \in 1..Len(s) :
           LET at == 1 + i + BackslashesBefore(s, i - 1)
           IN  /\ t[at] = s[i]
               /\ s[i] = "\\" => t[at + 1] = "\\"

\* The errors of a hand-off that are no render failures, and the
\* unknown-type render failure.
DistributeErrorKinds == {"TargetPathDoesntExitException", "OSError"}
UnknownTypeKind == "Exception"

\* C12: rendering is total.  Whenever a config whose properties all have
\* one of the six types is written, the generator returns one declaration
\* 'public final static <type> <name> = <literal>;' per property, in order,
\* with the property's name, and for a STRING or REGEX property the literal
\* is its value in quotes with every backslash doubled; and a write fails
\* at rendering with the unknown-type failure only.
C12_RenderIsTotal ==
    /\ \A k \in 1..Len(handoffs) :
           LET config == orchestrator.language_configs[handoffs[k].config]
               rendered == handoffs[k].declarations
           IN  (\A i \in 1..Len(config.properties) :
                    config.properties[i].type \in SixPropertyTypes)
               => /\ Len(rendered) = Len(config.properties)
                  /\ \A i \in 1..Len(rendered) :
                         LET property == config.properties[i]
                         IN  /\ rendered[i].modifiers = "public final static"
                             /\ rendered[i].name = property.name
                             /\ property.type \in {"PropertyType.STRING",
                                                   "PropertyType.REGEX"}
                                => /\ rendered[i].type = "String"
                                   /\ IsQuotedLiteral(rendered[i].value,
                                                      property.value.chars)
    /\ pc = "write_raised" =>
           error.kind \in DistributeErrorKinds \cup {UnknownTypeKind}

(***************************************************************************)
(* C13                                                                     *)
(***************************************************************************)
\* Property j references property k: the value of j has a placeholder that
\* names another property, and k is the property the name resolves to.
ReferenceEdge(j, k) ==
    \E ph \in PlaceholdersOf(j) :
        /\ ~SelfReference(ph)
        /\ IsDeclared(RefName(ph))
        /\ k = FirstNamed(RefName(ph))

\* k is reached from j along at most n references.
RECURSIVE ReachesWithin(_, _, _)
ReachesWithin(j, k, n) ==
    /\ n > 0
    /\ \/ ReferenceEdge(j, k)
       \/ \E m \in 1..Len(Declared) :
              ReferenceEdge(j, m) /\ ReachesWithin(m, k, n - 1)

\* Property j lies on a reference cycle across distinct properties.
OnCycle(j) == ReachesWithin(j, j, Len(Declared))

\* A placeholder that is a reference of such a cycle.
CycleReference(ph) ==
    /\ ~SelfReference(ph)
    /\ IsDeclared(RefName(ph))
    /\ ReachesWithin(FirstNamed(RefName(ph)), ph[1], Len(Declared))

\* In the substitution stage the properties from index on still hold their
\* declared values, and a substitution error stems from a placeholder of
\* the property at index that is no reference of a cycle.
C13_CycleRaisesNothing ==
    /\ pc = "substitute" =>
           /\ index \in 1..(Len(properties) + 1)
           /\ \A j \in index..Len(properties) :
                  properties[j].value = Declared[j].value
    /\ (pc = "raised" /\ error.kind \in SubstitutionErrors) =>
           \E ph \in PlaceholdersOf(index) :
               /\ ~CycleReference(ph)
               /\ Raising(ph) \/ NonStrReference(ph)

\* A step of the substitution stage processes the property at index, and
\* no other, and moves on to the next property.
C13_ProcessesNextProperty ==
    (pc = "substitute" /\ pc' = "substitute") =>
        /\ index' = index + 1
        /\ Len(properties') = Len(properties)
        /\ \A j \in 1..Len(properties) :
               j # index => properties'[j] = properties[j]

\* C13: the substitution stage processes each property's value exactly
\* once, in declaration order, and so ends after as many steps as there are
\* properties, also when properties reference each other in a cycle: a
\* reference of a cycle across distinct properties raises no error, so that
\* a substitution error stems from a direct self-reference or from another
\* failing placeholder, never from a cycle.
C13_CyclesFinishSubstitution ==
    []C13_CycleRaisesNothing /\ [][C13_ProcessesNextProperty]_vars

\* A finished substitution of three properties that reference each other
\* in one cycle, each with a changed value.
C13_Witness ==
    /\ SubstitutionDone
    /\ Len(Declared) = 3
    /\ \A j \in 1..3 :
           /\ OnCycle(j)
           /\ properties[j].value # Declared[j].value

=============================================================================
